---- MODULE Spec2Model ----
(***************************************************************************)
(* Model of the commit-message pipeline of MAS-Git-Commit-Message-Generator *)
(* (diff parser, change classifier, summary composer, message formatter,   *)
(* orchestrator) in its variants:                                          *)
(*   "llm"        src/commit_generator.py            (CrewAI backed)       *)
(*   "simple"     src/simple_commit_generator.py     (rule based)          *)
(*   "fast"       src/fast_commit_generator.py                              *)
(*   "production" src/production_commit_generator.py                        *)
(*   "demo"       src/demo_commit_generator.py       (mock agents)         *)
(*   "quick"      src/quick_commit.py                (single function)     *)
(* Texts are TLA+ strings; TLC evaluates Len, SubSeq and \o on them, so    *)
(* the Python string operations are modelled character by character.      *)
(***************************************************************************)
EXTENDS Integers, Sequences, FiniteSets, TLC

(***************************************************************************)
(* Python string primitives                                                *)
(***************************************************************************)

\* k in s
Contains(s, k) ==
    \E i \in 1..(Len(s) - Len(k) + 1) : SubSeq(s, i, i + Len(k) - 1) = k

\* any(k in s for k in keywords)
AnyIn(keywords, s) == \E k \in keywords : Contains(s, k)

\* s.startswith(p)
StartsWith(s, p) == Len(s) >= Len(p) /\ SubSeq(s, 1, Len(p)) = p

UpperChars == "ABCDEFGHIJKLMNOPQRSTUVWXYZ"
LowerChars == "abcdefghijklmnopqrstuvwxyz"

LowerChar(c) ==
    IF \E i \in 1..Len(UpperChars) : SubSeq(UpperChars, i, i) = c
    THEN LET i == CHOOSE j \in 1..Len(UpperChars) : SubSeq(UpperChars, j, j) = c
         IN  SubSeq(LowerChars, i, i)
    ELSE c

\* s.lower()
RECURSIVE Lower(_)
Lower(s) ==
    IF Len(s) <= 1 THEN LowerChar(s)
    ELSE LET half == Len(s) \div 2
         IN  Lower(SubSeq(s, 1, half)) \o Lower(SubSeq(s, half + 1, Len(s)))

\* the characters str.strip() and str.split() treat as whitespace
IsSpace(c) == c \in {" ", "\t", "\n", "\r"}

RECURSIVE LStrip(_)
LStrip(s) == IF s # "" /\ IsSpace(SubSeq(s, 1, 1)) THEN LStrip(Tail(s)) ELSE s

RECURSIVE RStrip(_)
RStrip(s) ==
    IF s # "" /\ IsSpace(SubSeq(s, Len(s), Len(s)))
    THEN RStrip(SubSeq(s, 1, Len(s) - 1))
    ELSE s

\* s.strip()
Strip(s) == RStrip(LStrip(s))

\* index of the first occurrence of the one-character separator, 0 if none
FirstIndex(s, sep) ==
    IF \E i \in 1..Len(s) : SubSeq(s, i, i) = sep
    THEN CHOOSE i \in 1..Len(s) :
            /\ SubSeq(s, i, i) = sep
            /\ \A j \in 1..(i - 1) : SubSeq(s, j, j) # sep
    ELSE 0

\* s.split(sep) for a one-character separator: never empty, keeps empty pieces
RECURSIVE Split(_, _)
Split(s, sep) ==
    LET i == FirstIndex(s, sep)
    IN  IF i = 0 THEN <<s>>
        ELSE <<SubSeq(s, 1, i - 1)>> \o Split(SubSeq(s, i + 1, Len(s)), sep)

\* length of the leading run of non-whitespace characters
RECURSIVE WordLen(_)
WordLen(s) ==
    IF s = "" \/ IsSpace(SubSeq(s, 1, 1)) THEN 0 ELSE 1 + WordLen(Tail(s))

\* s.split() without arguments: runs of whitespace separate, no empty pieces
RECURSIVE SplitWords(_)
SplitWords(s) ==
    LET t == LStrip(s)
    IN  IF t = "" THEN <<>>
        ELSE LET n == WordLen(t)
             IN  <<SubSeq(t, 1, n)>> \o SplitWords(SubSeq(t, n + 1, Len(t)))

\* path.split('/')[-1]
Basename(p) == LET parts == Split(p, "/") IN parts[Len(parts)]

\* any(ext in f for f in files)
AnyFileHas(files, ext) == \E i \in 1..Len(files) : Contains(files[i], ext)

\* the text after the first occurrence of sep (all of s when sep is absent)
AfterFirst(s, sep) ==
    IF Contains(s, sep)
    THEN LET i == CHOOSE j \in 1..(Len(s) - Len(sep) + 1) :
                      /\ SubSeq(s, j, j + Len(sep) - 1) = sep
                      /\ \A h \in 1..(j - 1) : SubSeq(s, h, h + Len(sep) - 1) # sep
         IN  SubSeq(s, i + Len(sep), Len(s))
    ELSE s

(***************************************************************************)
(* Diff Parser                                                             *)
(***************************************************************************)

HeaderPrefix == "diff --git a/"

\* re.match(r'^diff --git a/(.+?) b/(.+?)$', line): the position of the " b/"
\* that ends the lazy first group, 0 when the line does not match.  Both
\* groups need at least one character.
HeaderMatch(line) ==
    LET ok(i) == /\ i + 3 <= Len(line)
                 /\ SubSeq(line, i, i + 2) = " b/"
        from == Len(HeaderPrefix) + 2
    IN  IF StartsWith(line, HeaderPrefix) /\ \E i \in from..Len(line) : ok(i)
        THEN CHOOSE i \in from..Len(line) :
                ok(i) /\ \A j \in from..(i - 1) : ~ok(j)
        ELSE 0

RECURSIVE RegexFiles(_)
RegexFiles(lines) ==
    IF lines = <<>> THEN <<>>
    ELSE LET line == Head(lines)
             i == HeaderMatch(line)
         IN  (IF i = 0 THEN <<>> ELSE <<SubSeq(line, i + 3, Len(line))>>)
             \o RegexFiles(Tail(lines))

\* DiffAnalysisAgent._extract_file_names, ProductionDiffAnalyzer._extract_file_names
ExtractFileNamesRegex(git_diff) == RegexFiles(Split(git_diff, "\n"))

\* the files one line contributes in the split-based parsers
SplitLineFiles(line) ==
    LET parts == SplitWords(line)
    IN  IF StartsWith(line, "diff --git") /\ Len(parts) >= 4
        THEN LET file_a == Basename(parts[3])
                 file_b == Basename(parts[4])
             IN  (IF file_a # "/dev/null" THEN <<file_a>> ELSE <<>>)
                 \o (IF file_b # "/dev/null" /\ file_b # file_a
                     THEN <<file_b>> ELSE <<>>)
        ELSE <<>>

RECURSIVE SplitFiles(_)
SplitFiles(lines) ==
    IF lines = <<>> THEN <<>>
    ELSE SplitLineFiles(Head(lines)) \o SplitFiles(Tail(lines))

\* SimpleDiffAnalyzer._extract_file_names, FastDiffAnalyzer._extract_file_names
\* and the loop at the top of quick_commit.analyze_changes
ExtractFileNamesSplit(git_diff) == SplitFiles(Split(git_diff, "\n"))

(***************************************************************************)
(* Change Classifier                                                       *)
(***************************************************************************)

Result(ct, sc, conf, why, files) ==
    [change_type |-> ct, scope |-> sc, confidence |-> conf,
     reasoning |-> why, files |-> files]

\* the fallback dictionaries of the llm and fast variants carry no reasoning
ResultNoReason(ct, sc, conf, files) ==
    [change_type |-> ct, scope |-> sc, confidence |-> conf, files |-> files]

DocPatterns   == {"<!--", "-->", "readme"}
PyCodeWords   == {"def ", "class ", "import ", "return "}
\* a code-structure rule that knows the control keywords only
CodeWordsControlOnly == {"if ", "for ", "while "}
CodeWords     == {"def ", "class ", "import ", "return ", "if ", "for ", "while "}
AuthWords     == {"log", "auth", "login", "session", "token", "jwt"}
\* a fix rule that knows no regex and no pattern keyword
FixWordsShort == {"validation", "fix", "bug", "error"}
FixWords      == {"pattern", "regex", "validation", "fix", "bug", "error"}
RefactorWords == {"_", "private", "encapsulation", "refactor", "cleanup"}
TestWords     == {"test", "spec", "mock", "stub"}
StyleWords    == {"style", "format", "lint", "prettier"}
BuildWords    == {"build", "compile", "package", "dependencies"}
CiWords       == {"ci", "pipeline", "workflow", "github", "actions"}

\* (has_md_files or has_doc_patterns) and not is_python_code
IsDocs(files, lower) ==
    /\ AnyFileHas(files, ".md") \/ AnyIn(DocPatterns, lower)
    /\ ~(AnyFileHas(files, ".py") /\ AnyIn(PyCodeWords, lower))

\* SimpleDiffAnalyzer.analyze_diff, after file_names was extracted
ClassifySimple(file_names, git_diff) ==
    LET lower == Lower(git_diff)
    IN  IF IsDocs(file_names, lower)
          THEN Result("docs", "documentation", "high",
                      "Documentation changes detected", file_names)
        ELSE IF AnyIn(CodeWords, lower)
          THEN Result("feat", "code", "high",
                      "Code enhancements and new functionality detected", file_names)
        ELSE IF AnyIn(AuthWords, lower)
          THEN Result("feat", "auth", "high",
                      "Authentication and security features detected", file_names)
        ELSE IF AnyIn(FixWords, lower)
          THEN Result("fix", "validation", "high",
                      "Bug fixes and validation improvements detected", file_names)
        ELSE IF AnyIn(RefactorWords, lower)
          THEN Result("refactor", "code", "medium",
                      "Code structure and encapsulation improvements detected", file_names)
        ELSE IF AnyIn(TestWords, lower)
          THEN Result("test", "testing", "high",
                      "Test code additions or modifications detected", file_names)
        ELSE IF AnyIn(StyleWords, lower)
          THEN Result("style", "formatting", "medium",
                      "Code formatting and style changes detected", file_names)
        ELSE IF AnyIn(BuildWords, lower)
          THEN Result("build", "dependencies", "high",
                      "Build system and dependency changes detected", file_names)
        ELSE IF AnyIn(CiWords, lower)
          THEN Result("ci", "pipeline", "high",
                      "CI/CD pipeline changes detected", file_names)
        ELSE Result("chore", "maintenance", "low",
                    "General maintenance changes detected", file_names)

\* SimpleDiffAnalyzer.analyze_diff
AnalyzeSimple(git_diff) == ClassifySimple(ExtractFileNamesSplit(git_diff), git_diff)

QuickAuthWords     == {"auth", "login", "session", "token", "jwt"}
QuickRefactorWords == {"refactor", "cleanup", "private", "encapsulation"}

\* quick_commit.analyze_changes: classifier and formatter in one function
AnalyzeChangesQuick(diff_content) ==
    LET files == ExtractFileNamesSplit(diff_content)
        lower == Lower(diff_content)
    IN  IF Strip(diff_content) = "" THEN "chore: no changes detected"
        ELSE IF IsDocs(files, lower) THEN "docs: update documentation"
        ELSE IF AnyIn(CodeWords, lower)
          THEN IF AnyIn(QuickAuthWords, lower)
               THEN "feat(auth): add authentication features"
               ELSE "feat: add new functionality"
        ELSE IF AnyIn(FixWords, lower) THEN "fix: resolve issues and bugs"
        ELSE IF AnyIn(QuickRefactorWords, lower) THEN "refactor: improve code structure"
        ELSE IF AnyIn(TestWords, lower) THEN "test: add or update tests"
        ELSE IF AnyIn(StyleWords, lower) THEN "style: improve code formatting"
        ELSE IF AnyIn(BuildWords, lower) THEN "build: update build configuration"
        ELSE IF AnyIn(CiWords, lower) THEN "ci: update CI/CD pipeline"
        ELSE "chore: maintain codebase"

\* MockDiffAnalyzerAgent.analyze_diff: the result carries no file list
MockAnalyze(git_diff) ==
    LET lower == Lower(git_diff)
        res(ct, sc, conf, why) ==
            [change_type |-> ct, scope |-> sc, confidence |-> conf, reasoning |-> why]
    IN  IF Contains(git_diff, "def ") /\ Contains(git_diff, "+")
        THEN IF AnyIn({"fix", "bug", "pattern"}, lower)
               THEN res("fix", "validation", "high",
                        "Code changes include bug fix patterns and validation improvements")
             ELSE IF AnyIn({"log", "auth"}, lower)
               THEN res("feat", "auth", "high",
                        "New authentication features and logging functionality added")
             ELSE res("refactor", "database", "medium",
                      "Code structure improvements and encapsulation changes")
        ELSE res("chore", "none", "low", "General maintenance changes detected")

\* the except branch of DiffAnalysisAgent.analyze_diff
FallbackAnalysisLlm(file_names) ==
    IF AnyFileHas(file_names, "README.md")
      THEN ResultNoReason("docs", "readme", "high", file_names)
    ELSE IF AnyFileHas(file_names, ".md")
      THEN ResultNoReason("docs", "markdown", "high", file_names)
    ELSE IF AnyFileHas(file_names, ".py")
      THEN ResultNoReason("feat", "code", "high", file_names)
    ELSE ResultNoReason("chore", "maintenance", "low", file_names)

\* the except branch of FastDiffAnalyzer.analyze_diff
FallbackAnalysisFast(file_names) ==
    ResultNoReason("chore", "maintenance", "low", file_names)

\* the except branch of ProductionDiffAnalyzer.analyze_diff
FallbackAnalysisProduction(file_names) ==
    Result("chore", "maintenance", "low", "Unable to parse LLM analysis", file_names)

(***************************************************************************)
(* Python values: None, truthiness, str()                                  *)
(***************************************************************************)

\* Python's None (JSON null, a defaulted parameter); never a text the model uses
NoneValue == "<None>"

\* bool(v) for a string or None
Truthy(v) == v # "" /\ v # NoneValue

\* f"{v}"
Str(v) == IF v = NoneValue THEN "None" ELSE v

(***************************************************************************)
(* Summary Composer                                                        *)
(***************************************************************************)

\* a file context that counts every file among the others
FileContextCountAll(files) ==
    IF Len(files) = 0 THEN ""
    ELSE IF Len(files) = 1 THEN " in " \o files[1]
    ELSE IF Len(files) = 2 THEN " in " \o files[1] \o " and " \o files[2]
    ELSE " in " \o files[1] \o " and " \o ToString(Len(files)) \o " other files"

\* file_context of SimpleSummaryAgent.create_summary
FileContext(files) ==
    IF Len(files) = 0 THEN ""
    ELSE IF Len(files) = 1 THEN " in " \o files[1]
    ELSE IF Len(files) = 2 THEN " in " \o files[1] \o " and " \o files[2]
    ELSE " in " \o files[1] \o " and " \o ToString(Len(files) - 1) \o " other files"

\* SimpleSummaryAgent.create_summary
SimpleSummary(change_type, scope, files) ==
    LET file_context == FileContext(files)
    IN  IF change_type = "feat" THEN
            IF scope = "auth"
            THEN "Add authentication and security features" \o file_context
            ELSE "Add new functionality" \o file_context
        ELSE IF change_type = "fix" THEN
            IF scope = "validation"
            THEN "Fix validation and input handling" \o file_context
            ELSE "Fix bugs and resolve issues" \o file_context
        ELSE IF change_type = "refactor"
            THEN "Refactor code for better structure and maintainability" \o file_context
        ELSE IF change_type = "test" THEN "Add or update tests" \o file_context
        ELSE IF change_type = "docs" THEN
            IF scope = "documentation" THEN "Update API documentation" \o file_context
            ELSE IF scope = "code" THEN "Comment out code sections" \o file_context
            ELSE "Update documentation" \o file_context
        ELSE IF change_type = "style" THEN "Improve code formatting and style"
        ELSE IF change_type = "build" THEN "Update build configuration and dependencies"
        ELSE IF change_type = "ci" THEN "Update CI/CD pipeline configuration"
        ELSE "Update codebase with maintenance improvements"

\* analysis.get(key, default)
Get(d, key, default) == IF key \in DOMAIN d THEN d[key] ELSE default

\* the except branch of SummaryAgent.create_summary
FallbackSummaryLlm(analysis_) ==
    LET change_type == Get(analysis_, "change_type", "chore")
        scope == Get(analysis_, "scope", "maintenance")
    IN  IF change_type = "feat" THEN "Add new " \o Str(scope) \o " functionality"
        ELSE IF change_type = "fix" THEN "Fix " \o Str(scope) \o " issues"
        ELSE IF change_type = "docs" THEN "Update " \o Str(scope) \o " documentation"
        ELSE "Update " \o Str(scope) \o " components"

\* MockSummaryAgent.create_summary
MockSummary(change_type) ==
    IF change_type = "feat"
      THEN "Add authentication logging and session management features"
    ELSE IF change_type = "fix"
      THEN "Improve email validation regex pattern for better accuracy"
    ELSE IF change_type = "refactor"
      THEN "Refactor database connection handling with proper encapsulation"
    ELSE "Update codebase with maintenance improvements"

(***************************************************************************)
(* Message Formatter                                                       *)
(***************************************************************************)

\* the length the LLM-backed formatter accepts from the advisory
MaxCandidateLength == 50

\* a scope part that leaves out only the absent scope
ScopePartAny(scope) ==
    IF Truthy(scope) THEN "(" \o Str(scope) \o ")" ELSE ""

\* scope_part = f"({scope})" if scope and scope != "maintenance" else ""
ScopePart(scope) ==
    IF Truthy(scope) /\ scope # "maintenance" THEN "(" \o Str(scope) \o ")" ELSE ""

\* a rendering that joins the parts with a dash
RenderWithDash(change_type, scope, description) ==
    Str(change_type) \o ScopePart(scope) \o " - " \o description

\* f"{change_type}{scope_part}: {description}"
Render(change_type, scope, description) ==
    Str(change_type) \o ScopePart(scope) \o ": " \o description

\* a description chosen by the category alone, whatever the scope
DescriptionSimpleByCategory(change_type, scope) ==
    IF change_type = "feat" THEN "add new functionality"
    ELSE IF change_type = "fix" THEN "fix issues and bugs"
    ELSE IF change_type = "docs" THEN "update documentation"
    ELSE IF change_type = "refactor" THEN "refactor code structure"
    ELSE IF change_type = "test" THEN "add or update tests"
    ELSE IF change_type = "style" THEN "improve code formatting"
    ELSE IF change_type = "build" THEN "update build configuration"
    ELSE IF change_type = "ci" THEN "update CI/CD pipeline"
    ELSE "maintain codebase"

\* SimpleCommitFormatter.format_commit_message, the description
DescriptionSimple(change_type, scope) ==
    IF change_type = "feat" THEN
        IF scope = "auth" THEN "add authentication features"
        ELSE IF scope = "api" THEN "add new API endpoints"
        ELSE IF scope = "ui" THEN "add new user interface"
        ELSE "add new functionality"
    ELSE IF change_type = "fix" THEN
        IF scope = "validation" THEN "fix validation issues"
        ELSE IF scope = "bug" THEN "fix critical bugs"
        ELSE "fix issues and bugs"
    ELSE IF change_type = "docs" THEN
        IF scope = "api" THEN "update API documentation"
        ELSE IF scope = "readme" THEN "update README"
        ELSE "update documentation"
    ELSE IF change_type = "refactor" THEN "refactor code structure"
    ELSE IF change_type = "test" THEN "add or update tests"
    ELSE IF change_type = "style" THEN "improve code formatting"
    ELSE IF change_type = "build" THEN "update build configuration"
    ELSE IF change_type = "ci" THEN "update CI/CD pipeline"
    ELSE "maintain codebase"

\* FastCommitFormatter.format_commit_message, the description
DescriptionFast(change_type, scope) ==
    IF change_type = "feat" THEN
        IF scope = "auth" THEN "add authentication features"
        ELSE IF scope = "api" THEN "add new API endpoints"
        ELSE IF scope = "ui" THEN "add new user interface"
        ELSE "add new functionality"
    ELSE IF change_type = "fix" THEN
        IF scope = "validation" THEN "fix validation issues"
        ELSE IF scope = "bug" THEN "fix critical bugs"
        ELSE "fix issues and bugs"
    ELSE IF change_type = "docs" THEN
        IF scope = "api" THEN "update API documentation"
        ELSE IF scope = "readme" THEN "update README"
        ELSE "update documentation"
    ELSE IF change_type = "refactor" THEN "refactor code structure"
    ELSE IF change_type = "test" THEN "add or update tests"
    ELSE IF change_type = "style" THEN "improve code formatting"
    ELSE IF change_type = "build" THEN "update build configuration"
    ELSE IF change_type = "ci" THEN "update CI/CD pipeline"
    ELSE "maintain codebase"

\* ProductionCommitFormatter.format_commit_message, the description
DescriptionProduction(change_type, scope) ==
    IF change_type = "feat" THEN
        IF scope = "auth" THEN "add authentication features"
        ELSE IF scope = "api" THEN "add new API endpoints"
        ELSE IF scope = "ui" THEN "add new user interface"
        ELSE "add new functionality"
    ELSE IF change_type = "fix" THEN
        IF scope = "validation" THEN "fix validation issues"
        ELSE IF scope = "bug" THEN "fix critical bugs"
        ELSE "fix issues and bugs"
    ELSE IF change_type = "docs" THEN
        IF scope = "api" THEN "update API documentation"
        ELSE IF scope = "readme" THEN "update README"
        ELSE "update documentation"
    ELSE IF change_type = "refactor" THEN "refactor code structure"
    ELSE IF change_type = "test" THEN "add or update tests"
    ELSE IF change_type = "style" THEN "improve code formatting"
    ELSE IF change_type = "build" THEN "update build configuration"
    ELSE IF change_type = "ci" THEN "update CI/CD pipeline"
    ELSE "maintain codebase"

\* CommitFormatterAgent.format_commit_message, the else branch of the validation
DescriptionLlmTable(change_type, scope) ==
    IF change_type = "feat" THEN
        IF scope = "auth" THEN "add authentication features"
        ELSE IF scope = "api" THEN "add new API endpoints"
        ELSE IF scope = "ui" THEN "add new user interface"
        ELSE IF scope = "code" THEN "add new functionality"
        ELSE "add new functionality"
    ELSE IF change_type = "fix" THEN
        IF scope = "validation" THEN "fix validation issues"
        ELSE IF scope = "bug" THEN "fix critical bugs"
        ELSE "fix issues and bugs"
    ELSE IF change_type = "docs" THEN
        IF scope = "api" THEN "update API documentation"
        ELSE IF scope = "readme" THEN "update README"
        ELSE IF scope = "markdown" THEN "update markdown documentation"
        ELSE "update documentation"
    ELSE IF change_type = "refactor" THEN "refactor code structure"
    ELSE IF change_type = "test" THEN "add or update tests"
    ELSE IF change_type = "style" THEN "improve code formatting"
    ELSE IF change_type = "build" THEN "update build configuration"
    ELSE IF change_type = "ci" THEN "update CI/CD pipeline"
    ELSE "maintain codebase"

\* CommitFormatterAgent.format_commit_message, the except branch
DescriptionLlmExcept(change_type) ==
    IF change_type = "feat" THEN "add new functionality"
    ELSE IF change_type = "fix" THEN "fix issues and bugs"
    ELSE IF change_type = "docs" THEN "update documentation"
    ELSE IF change_type = "refactor" THEN "refactor code structure"
    ELSE IF change_type = "test" THEN "add or update tests"
    ELSE IF change_type = "style" THEN "improve code formatting"
    ELSE IF change_type = "build" THEN "update build configuration"
    ELSE IF change_type = "ci" THEN "update CI/CD pipeline"
    ELSE "maintain codebase"

\* SimpleCommitFormatter.format_commit_message
FormatSimple(change_type, summary_, scope) ==
    Render(change_type, scope, DescriptionSimple(change_type, scope))

\* FastCommitFormatter.format_commit_message (the crew is built, never run)
FormatFast(change_type, scope, files) ==
    Render(change_type, scope, DescriptionFast(change_type, scope))

\* ProductionCommitFormatter.format_commit_message after crew.kickoff() returned:
\* the advisory text is overwritten
FormatProduction(change_type, summary_, scope) ==
    Render(change_type, scope, DescriptionProduction(change_type, scope))

\* MockCommitFormatterAgent.format_commit_message
FormatMock(change_type, summary_, scope) ==
    IF Truthy(scope) /\ scope # "none"
    THEN Str(change_type) \o "(" \o Str(scope) \o "): " \o Lower(summary_)
    ELSE Str(change_type) \o ": " \o Lower(summary_)

\* the validation of the advisory's message in CommitFormatterAgent
\* a gate that lets a candidate through on either check
ValidCandidateEither(formatted_result) ==
    Contains(formatted_result, ":") \/ Len(formatted_result) <= MaxCandidateLength

ValidCandidate(formatted_result) ==
    Contains(formatted_result, ":") /\ Len(formatted_result) <= MaxCandidateLength

\* which branch of CommitFormatterAgent.format_commit_message produces the
\* message, for a reply of the advisory
\*   [kind |-> "raise"] or [kind |-> "text", text |-> the crew's output]
LlmBranch(reply_) ==
    IF reply_.kind = "raise" THEN "except"
    ELSE IF ValidCandidate(Strip(reply_.text)) THEN "advisory"
    ELSE "table"

\* CommitFormatterAgent.format_commit_message
FormatLlm(change_type, scope, summary_, reply_) ==
    LET branch == LlmBranch(reply_)
    IN  IF branch = "advisory" THEN Strip(reply_.text)
        ELSE IF branch = "table"
          THEN Render(change_type, scope, DescriptionLlmTable(change_type, scope))
        ELSE Render(change_type, scope, DescriptionLlmExcept(change_type))

(***************************************************************************)
(* Inputs                                                                  *)
(***************************************************************************)

DiffEmpty     == ""
DiffBlank     == "   \n  \t  "
DiffMalformed == "not a git diff"
DiffPython    == "diff --git a/src/main.py b/src/main.py\n def hello():\n+    return 1\n"
DiffPythonTest == "diff --git a/src/main.py b/src/main.py\nindex 1234567..abcdefg 100644\n--- a/src/main.py\n+++ b/src/main.py\n@@ -1,3 +1,4 @@\n def hello():\n+    print(\"Hello World\")\n     return \"Hello\"\n"
DiffReadme    == "diff --git a/README.md b/README.md\n # Project\n+## New Section\n"
DiffAuth      == "diff --git a/src/auth.py b/src/auth.py\n+def login(u):\n+    log_failed_attempt(u)\n+    session\n"

DiffMixed     == "diff --git a/README.md b/README.md\n+## Usage\ndiff --git a/src/main.py b/src/main.py\n+def hello():\n+    return 1\n"
DiffTwoFiles  == "diff --git a/src/main.py b/src/main.py\n+    print(1)\ndiff --git a/tests/test_main.py b/tests/test_main.py\n--- /dev/null\n+def test_hello():\n"
DiffSamePath  == "diff --git a/src/main.py b/src/main.py\n+x = 1\ndiff --git a/src/main.py b/src/main.py\n+y = 2\n"
DiffSameName  == "diff --git a/src/a/util.py b/src/a/util.py\ndiff --git a/src/b/util.py b/src/b/util.py\n"
DiffRename    == "diff --git a/old.py b/new.py\nrename from old.py\n"
DiffDeleted   == "diff --git a/gone.py /dev/null\n-x = 1\n"
DiffDeletedB  == "diff --git a/gone.py b//dev/null\n-x = 1\n"

DiffThreeFiles == "diff --git a/a.py b/a.py\ndiff --git a/b.py b/b.py\ndiff --git a/c.py b/c.py\n+def f():\n"
\* diffs whose headers are the matter
HeaderDiffs ==
    {DiffMixed, DiffTwoFiles, DiffSamePath, DiffSameName, DiffRename, DiffDeleted,
     DiffDeletedB, DiffThreeFiles}

\* one diff in two letter cases
DiffNotes      == "diff --git a/notes.md b/notes.md\n+more words\n"
DiffNotesUpper == "diff --git a/NOTES.MD b/NOTES.MD\n+More Words\n"
CaseDiffs == {DiffNotes, DiffNotesUpper}

\* texts without a header, one or more keyword rules each
KeywordDiffs ==
    {"login token", "regex pattern", "private cleanup", "mock stub",
     "prettier lint", "compile package", "pipeline workflow",
     "fix login bug", "test_format", "build pipeline", "style mock",
     "if login fix", "validation token", "plain words",
     "email validation error"}

Diffs ==
    {DiffEmpty, DiffBlank, DiffMalformed, DiffPython, DiffPythonTest, DiffReadme,
     DiffAuth}
    \cup HeaderDiffs \cup KeywordDiffs \cup CaseDiffs

\* what `git diff` prints when it succeeds
GitOutputs == {DiffEmpty, DiffPython}

Variants == {"llm", "simple", "fast", "production", "demo", "quick"}

\* the variants whose stages run a crew
AdvisoryVariants == {"llm", "fast", "production"}

\* the variants that read the version-control source themselves
GitVariants == {"llm", "simple", "fast", "production"}

\* replies of the advisory to the classification task, as json.loads sees
\* them: the call raises, the text is not JSON, the JSON is not an object,
\* the JSON is an object (a dict), or no reply ever comes
AnalysisObjects ==
    {[change_type |-> "feat", scope |-> "auth", confidence |-> "high"],
     [change_type |-> "perf", scope |-> "none", confidence |-> "low"],
     [change_type |-> "docs", scope |-> NoneValue],
     [scope |-> "api", confidence |-> "high"],
     [change_type |-> "fix", confidence |-> "medium"]}

AnalysisReplies ==
    {[kind |-> "raise"], [kind |-> "silent"], [kind |-> "not_json"],
     [kind |-> "json_list"]}
    \cup {[kind |-> "json_object", value |-> o] : o \in AnalysisObjects}

Candidate50 == "feat(auth): add login and session checks for users"
Candidate51 == "feat(auth): add login and session checks for users!"

\* texts the advisory returns for the formatting task
CandidateTexts ==
    {"fix(api): resolve bug", "  feat(auth): add login \n", "update the readme",
     Candidate50, Candidate51}

TextReplies(texts) ==
    {[kind |-> "raise"], [kind |-> "silent"]}
    \cup {[kind |-> "text", text |-> t] : t \in texts}

SummaryTexts == {" Adds a login flow. "}

\* with the overlay off every advisory call fails with an exception
RepliesUnder(overlay_, replies) ==
    IF overlay_ = "off" THEN {[kind |-> "raise"]} ELSE replies

\* arguments of a direct call of a formatter
FormatCategories ==
    {"feat", "fix", "docs", "style", "refactor", "test", "chore", "build", "ci",
     "perf"}
FormatScopes ==
    {NoneValue, "", "maintenance", "none", "auth", "api", "ui", "code",
     "validation", "bug", "readme", "markdown", "documentation"}
FormatSummaries == {"Add new functionality", "Fix validation and input handling in a.py"}

FormatterVariants == {"llm", "simple", "fast", "production", "demo"}

(***************************************************************************)
(* State                                                                   *)
(***************************************************************************)

VARIABLES
    pc,             \* position of the orchestrator
    variant,        \* the generator in use
    entry,          \* "generate": the pipeline; "format": a formatter called directly
    overlay,        \* "on": the advisory answers as it likes; "off": it always fails
    git_status,     \* how the diff was obtained: "arg", "ok", "exit_error", "no_git"
    git_diff,       \* the diff text
    file_names,     \* the parser's result
    analysis,       \* the classifier's result (a dict)
    summary,        \* the composer's result
    reply,          \* the advisory's reply to the formatting task
    commit_message, \* the message returned
    raised,         \* the exception that reached the caller, "" if none
    classified_by,  \* "rules", "fallback" or "advisory": where analysis came from
    remembered      \* an earlier advisory-free invocation: variant, diff, message,
                    \* and the number of invocations begun since

vars == <<pc, variant, entry, overlay, git_status, git_diff, file_names,
          analysis, summary, reply, commit_message, raised, classified_by,
          remembered>>

\* values of state variables that hold nothing yet
Unset      == "<unset>"
NoAnalysis == [unset |-> TRUE]
NoReply    == [kind |-> "none"]
NoRecord   == [unset |-> TRUE]

\* invocations counted after the remembered one, at most
MaxSince == 2

Terminal == {"Done", "NoChanges", "Raised"}

Init ==
    /\ pc = "Idle"
    /\ variant = "simple"
    /\ entry = "generate"
    /\ overlay = "off"
    /\ git_status = Unset
    /\ git_diff = Unset
    /\ file_names = <<>>
    /\ analysis = NoAnalysis
    /\ summary = Unset
    /\ reply = NoReply
    /\ commit_message = Unset
    /\ raised = ""
    /\ classified_by = Unset
    /\ remembered = NoRecord

\* the locals of a fresh invocation
Fresh ==
    /\ git_status' = Unset
    /\ git_diff' = Unset
    /\ file_names' = <<>>
    /\ analysis' = NoAnalysis
    /\ summary' = Unset
    /\ reply' = NoReply
    /\ commit_message' = Unset
    /\ raised' = ""
    /\ classified_by' = Unset

\* the exception `name` leaves the entry point
Raise(name) == pc' = "Raised" /\ raised' = name

\* the stage waits for an advisory that never answers
Block == pc' = "Blocked" /\ UNCHANGED raised

(***************************************************************************)
(* Pipeline Orchestrator                                                   *)
(***************************************************************************)

\* one more invocation has begun since the remembered one
Later(record) ==
    IF record = NoRecord THEN record
    ELSE [record EXCEPT !.since = IF @ < MaxSince THEN @ + 1 ELSE @]

\* a generator is asked for a message
InvokeWith(v, o) ==
    /\ pc \in Terminal \cup {"Idle"}
    /\ pc' = "Start"
    /\ variant' = v
    /\ entry' = "generate"
    /\ overlay' = o
    /\ Fresh
    /\ remembered' = Later(remembered)

Invoke ==
    \E v \in Variants :
        \E o \in (IF v \in AdvisoryVariants THEN {"on", "off"} ELSE {"off"}) :
            InvokeWith(v, o)

\* a formatter is called by itself on a newly built object, as the tests do
DirectFormat ==
    \E v \in FormatterVariants, ct \in FormatCategories, sc \in FormatScopes,
       s \in FormatSummaries :
        /\ pc = "Idle"
        /\ variant' = v
        /\ entry' = "format"
        /\ overlay' = (IF v \in {"llm", "production"} THEN "on" ELSE "off")
        /\ analysis' = [change_type |-> ct, scope |-> sc]
        /\ summary' = s
        /\ pc' = (IF v = "fast" THEN "Classified" ELSE "Summarized")
        /\ git_status' = Unset
        /\ git_diff' = Unset
        /\ file_names' = <<>>
        /\ reply' = NoReply
        /\ commit_message' = Unset
        /\ raised' = ""
        /\ classified_by' = Unset
        /\ UNCHANGED remembered

\* does the variant catch FileNotFoundError around this git call?
CatchesNoGit(v, source) == v \in {"simple", "fast", "production"} /\ source = "range"

\* the message for an empty diff
EmptyMessage(v) ==
    IF v = "llm" THEN "No changes detected."
    ELSE "No changes detected or git diff is empty."

\* generate(): the diff is the argument or comes from git, then the test for
\* an empty diff
AcquireDiff ==
    /\ pc = "Start"
    /\ \E source \in (IF variant \in GitVariants THEN {"arg", "staged", "range"}
                                              ELSE {"arg"}) :
       \E d \in (IF source = "arg" THEN Diffs ELSE GitOutputs) :
       \E status \in (IF source = "arg" THEN {"arg"}
                                        ELSE {"ok", "exit_error", "no_git"}) :
          /\ git_status' = status
          /\ IF status = "no_git" /\ ~CatchesNoGit(variant, source)
             THEN /\ Raise("FileNotFoundError")
                  /\ UNCHANGED <<git_diff, commit_message>>
             ELSE LET text == IF status \in {"arg", "ok"} THEN d ELSE ""
                  IN  /\ git_diff' = text
                      /\ UNCHANGED raised
                      /\ IF variant \in GitVariants /\ Strip(text) = ""
                         THEN /\ pc' = "NoChanges"
                              /\ commit_message' = EmptyMessage(variant)
                         ELSE /\ pc' = "DiffAcquired"
                              /\ UNCHANGED commit_message
    /\ UNCHANGED <<variant, entry, overlay, file_names, analysis, summary, reply,
                   classified_by, remembered>>

\* a parser that appends to a list it shares with the remembered call
ExtractFilesShared ==
    /\ pc = "DiffAcquired"
    /\ variant \in {"llm", "simple", "fast", "production"}
    /\ file_names' =
          (IF remembered = NoRecord THEN <<>>
           ELSE IF variant \in {"llm", "production"}
             THEN ExtractFileNamesRegex(remembered.git_diff)
           ELSE ExtractFileNamesSplit(remembered.git_diff))
          \o (IF variant \in {"llm", "production"}
              THEN ExtractFileNamesRegex(git_diff)
              ELSE ExtractFileNamesSplit(git_diff))
    /\ pc' = "FilesExtracted"
    /\ UNCHANGED <<variant, entry, overlay, git_status, git_diff, analysis,
                   summary, reply, commit_message, raised, classified_by,
                   remembered>>

\* the first statement of analyze_diff
ExtractFiles ==
    /\ pc = "DiffAcquired"
    /\ variant \in {"llm", "simple", "fast", "production"}
    /\ file_names' = (IF variant \in {"llm", "production"}
                      THEN ExtractFileNamesRegex(git_diff)
                      ELSE ExtractFileNamesSplit(git_diff))
    /\ pc' = "FilesExtracted"
    /\ UNCHANGED <<variant, entry, overlay, git_status, git_diff, analysis,
                   summary, reply, commit_message, raised, classified_by,
                   remembered>>

\* analysis["files"] = file_names
WithFiles(d, files) ==
    [k \in DOMAIN d \cup {"files"} |-> IF k = "files" THEN files ELSE d[k]]

\* does the try block of analyze_diff return the advisory's analysis?  A JSON
\* value that is no object fails at analysis["files"] = ... with a TypeError.
AdvisoryAnalysisUsed(r) == r.kind = "json_object"

\* what analyze_diff returns once crew.kickoff() came back or raised
AnalysisFrom(r, fallback, files) ==
    IF AdvisoryAnalysisUsed(r) THEN WithFiles(r.value, files) ELSE fallback

\* the rest of analyze_diff
Classify ==
    /\ \/ pc = "FilesExtracted"
       \/ pc = "DiffAcquired" /\ variant = "demo"
    /\ \/ /\ variant = "simple"
          /\ analysis' = ClassifySimple(file_names, git_diff)
          /\ classified_by' = "rules"
          /\ pc' = "Classified"
          /\ UNCHANGED raised
       \/ /\ variant = "demo"
          /\ analysis' = MockAnalyze(git_diff)
          /\ classified_by' = "rules"
          /\ pc' = "Classified"
          /\ UNCHANGED raised
       \/ /\ variant \in AdvisoryVariants
          /\ \E r \in RepliesUnder(overlay, AnalysisReplies) :
                IF r.kind = "silent"
                  THEN Block /\ UNCHANGED <<analysis, classified_by>>
                ELSE IF r.kind = "raise" /\ variant = "production"
                  THEN Raise("ConnectionError") /\ UNCHANGED <<analysis, classified_by>>
                ELSE /\ analysis' =
                          AnalysisFrom(r,
                              IF variant = "llm" THEN FallbackAnalysisLlm(file_names)
                              ELSE IF variant = "fast" THEN FallbackAnalysisFast(file_names)
                              ELSE FallbackAnalysisProduction(file_names),
                              file_names)
                     /\ classified_by' =
                          (IF AdvisoryAnalysisUsed(r) THEN "advisory" ELSE "fallback")
                     /\ pc' = "Classified"
                     /\ UNCHANGED raised
    /\ UNCHANGED <<variant, entry, overlay, git_status, git_diff, file_names,
                   summary, reply, commit_message, remembered>>

\* analysis["change_type"] and analysis["scope"] both exist
HasKeys(d) == {"change_type", "scope"} \subseteq DOMAIN d

\* create_summary and the evaluation of its arguments
Summarize ==
    /\ pc = "Classified"
    /\ entry = "generate"
    /\ variant \in {"llm", "simple", "production", "demo"}
    /\ \/ /\ variant = "simple"
          /\ summary' = SimpleSummary(analysis["change_type"], analysis["scope"],
                                      Get(analysis, "files", <<>>))
          /\ pc' = "Summarized"
          /\ UNCHANGED raised
       \/ /\ variant = "demo"
          /\ summary' = MockSummary(analysis["change_type"])
          /\ pc' = "Summarized"
          /\ UNCHANGED raised
       \/ /\ variant = "llm"
          /\ \E r \in RepliesUnder(overlay, TextReplies(SummaryTexts)) :
                IF r.kind = "silent" THEN Block /\ UNCHANGED summary
                ELSE /\ summary' = (IF r.kind = "raise"
                                    THEN FallbackSummaryLlm(analysis)
                                    ELSE Strip(r.text))
                     /\ pc' = "Summarized"
                     /\ UNCHANGED raised
       \/ /\ variant = "production"
          /\ IF ~HasKeys(analysis)
             THEN Raise("KeyError") /\ UNCHANGED summary
             ELSE \E r \in RepliesUnder(overlay, TextReplies(SummaryTexts)) :
                    IF r.kind = "silent" THEN Block /\ UNCHANGED summary
                    ELSE IF r.kind = "raise"
                      THEN Raise("ConnectionError") /\ UNCHANGED summary
                    ELSE /\ summary' = Strip(r.text)
                         /\ pc' = "Summarized"
                         /\ UNCHANGED raised
    /\ UNCHANGED <<variant, entry, overlay, git_status, git_diff, file_names,
                   analysis, reply, commit_message, classified_by, remembered>>

\* format_commit_message and the evaluation of its arguments
Format ==
    /\ \/ pc = "Summarized"
       \/ pc = "Classified" /\ variant = "fast"
    /\ \/ /\ variant = "simple"
          /\ commit_message' =
                FormatSimple(analysis["change_type"], summary, analysis["scope"])
          /\ pc' = "Formatted"
          /\ UNCHANGED <<raised, reply>>
       \/ /\ variant = "demo"
          /\ commit_message' =
                FormatMock(analysis["change_type"], summary, analysis["scope"])
          /\ pc' = "Formatted"
          /\ UNCHANGED <<raised, reply>>
       \/ /\ variant = "fast"
          /\ IF ~HasKeys(analysis)
             THEN Raise("KeyError") /\ UNCHANGED commit_message
             ELSE /\ commit_message' =
                        FormatFast(analysis["change_type"], analysis["scope"],
                                   Get(analysis, "files", <<>>))
                  /\ pc' = "Formatted"
                  /\ UNCHANGED raised
          /\ UNCHANGED reply
       \/ /\ variant \in {"llm", "production"}
          /\ IF ~HasKeys(analysis)
             THEN Raise("KeyError") /\ UNCHANGED <<commit_message, reply>>
             ELSE \E r \in RepliesUnder(overlay, TextReplies(CandidateTexts)) :
                    IF r.kind = "silent"
                      THEN Block /\ UNCHANGED <<commit_message, reply>>
                    ELSE IF r.kind = "raise" /\ variant = "production"
                      THEN Raise("ConnectionError") /\ UNCHANGED <<commit_message, reply>>
                    ELSE /\ reply' = r
                         /\ commit_message' =
                              (IF variant = "llm"
                               THEN FormatLlm(analysis["change_type"], analysis["scope"],
                                              summary, r)
                               ELSE FormatProduction(analysis["change_type"], summary,
                                                     analysis["scope"]))
                         /\ pc' = "Formatted"
                         /\ UNCHANGED raised
    /\ UNCHANGED <<variant, entry, overlay, git_status, git_diff, file_names,
                   analysis, summary, classified_by, remembered>>

\* quick_commit.analyze_changes: one function from the diff to the message
QuickAnalyze ==
    /\ pc = "DiffAcquired"
    /\ variant = "quick"
    /\ commit_message' = AnalyzeChangesQuick(git_diff)
    /\ pc' = (IF Strip(git_diff) = "" THEN "NoChanges" ELSE "Formatted")
    /\ UNCHANGED <<variant, entry, overlay, git_status, git_diff, file_names,
                   analysis, summary, reply, raised, classified_by, remembered>>

\* return commit_message
Return ==
    /\ pc = "Formatted"
    /\ pc' = "Done"
    /\ UNCHANGED <<variant, entry, overlay, git_status, git_diff, file_names,
                   analysis, summary, reply, commit_message, raised,
                   classified_by, remembered>>

Next ==
    \/ Invoke
    \/ DirectFormat
    \/ AcquireDiff
    \/ ExtractFiles
    \/ Classify
    \/ Summarize
    \/ Format
    \/ QuickAnalyze
    \/ Return

Spec == Init /\ [][Next]_vars

(***************************************************************************)
(* Repeated invocations with the advisory disabled                         *)
(***************************************************************************)

\* a generator is asked for a message while every advisory call fails
InvokeOff == \E v \in Variants : InvokeWith(v, "off")

\* an observer notes what a finished invocation was given and what it returned
Remember ==
    /\ pc \in {"Done", "NoChanges"}
    /\ entry = "generate"
    /\ overlay = "off"
    /\ remembered' = [variant |-> variant, git_diff |-> git_diff,
                      commit_message |-> commit_message, since |-> 0]
    /\ UNCHANGED <<pc, variant, entry, overlay, git_status, git_diff, file_names,
                   analysis, summary, reply, commit_message, raised,
                   classified_by>>

DetNext ==
    \/ InvokeOff
    \/ AcquireDiff
    \/ ExtractFiles
    \/ Classify
    \/ Summarize
    \/ Format
    \/ QuickAnalyze
    \/ Return
    \/ Remember

DetSpec == Init /\ [][DetNext]_vars

(***************************************************************************)
(* Properties                                                              *)
(***************************************************************************)

\* the entry point has returned a message
Returned == pc \in {"Done", "NoChanges"}

\* the invocation runs the pipeline on a diff that is not empty
OnNonEmptyDiff == entry = "generate" /\ git_diff # Unset /\ Strip(git_diff) # ""

\* the invocation runs the pipeline on an empty or whitespace-only diff
OnEmptyDiff == entry = "generate" /\ git_diff # Unset /\ Strip(git_diff) = ""

NineCategories ==
    {"feat", "fix", "docs", "style", "refactor", "test", "chore", "build", "ci"}

\* C1: for every empty or whitespace-only diff the pipeline entry point
\* (CommitMessageGenerator.generate, SimpleCommitMessageGenerator
\* .generate_commit_message) returns exactly "No changes detected."
C1_EmptyDiffSentinel ==
    (variant \in {"llm", "simple"} /\ OnEmptyDiff /\ Returned)
    => commit_message = "No changes detected."

\* C2: for a non-empty diff, whatever the advisory does in any stage (raises,
\* answers text that is no JSON, JSON that is no object, an object without
\* change_type or scope), no exception reaches the caller of the pipeline
C2_NoExceptionEscapes ==
    (variant \in AdvisoryVariants /\ OnNonEmptyDiff) => pc # "Raised"

\* C3: every invocation completes: no invocation is left waiting for an
\* advisory call that does not return (from Blocked no step is possible, so an
\* invocation that gets there never reaches a final state)
C3_NeverWaitsForever ==
    pc # "Blocked"

\* C4: the classification handed to the later stages has a category that is
\* one of the nine, also when it is the advisory's parsed JSON
C4_CategoryIsOneOfNine ==
    (entry = "generate" /\ pc \in {"Classified", "Summarized", "Formatted", "Done"}
        /\ variant # "quick")
    => /\ "change_type" \in DOMAIN analysis
       /\ analysis["change_type"] \in NineCategories

\* the message is  type: ...  or  type(scope): ...  for the given type and scope
HasShape(message, change_type, scope) ==
    \/ StartsWith(message, Str(change_type) \o ": ")
    \/ StartsWith(message, Str(change_type) \o "(" \o Str(scope) \o "): ")

\* C5: the string the message formatter returns has the shape
\* type[(scope)]: description, with the category and the scope it was given,
\* for every advisory outcome
C5_FormatterShape ==
    (variant \in {"llm", "simple"} /\ pc \in {"Formatted", "Done"})
    => HasShape(commit_message, analysis["change_type"], analysis["scope"])

\* Config.MAX_COMMIT_LENGTH, the configured default
MAX_COMMIT_LENGTH == 50

MaxDescriptionLength == 50

\* C7: in every message the pipeline returns for a non-empty diff, the part
\* after type(scope): is at most MaxDescriptionLength characters long
C7_DescriptionLength ==
    (variant \in {"llm", "simple", "demo"} /\ OnNonEmptyDiff /\ pc = "Done")
    => Len(AfterFirst(commit_message, ": ")) <= MaxDescriptionLength

\* scopes that stand for "no scope"
SentinelScopes == {NoneValue, "", "maintenance", "none"}

\* C8: a formatter given a sentinel scope emits no parenthesis group; given any
\* other scope it emits (scope) right after the category
C8_ScopeSuppression ==
    (variant \in {"simple", "demo"} /\ pc \in {"Formatted", "Done"})
    => LET change_type == Str(analysis["change_type"])
           scope       == analysis["scope"]
       IN  IF scope \in SentinelScopes
           THEN StartsWith(commit_message, change_type \o ": ")
           ELSE StartsWith(commit_message, change_type \o "(" \o scope \o "): ")

\* C9: with the advisory disabled, an invocation on the same diff as a
\* remembered earlier one returns the same message, whatever was invoked in
\* between
C9_Deterministic ==
    (/\ Returned
     /\ entry = "generate"
     /\ overlay = "off"
     /\ remembered # NoRecord
     /\ remembered.variant = variant
     /\ remembered.git_diff = git_diff)
    => commit_message = remembered.commit_message

\* the same diff was given again, two invocations after the remembered one,
\* and a message came back
C9_Witness ==
    /\ pc = "Done"
    /\ variant = "llm"
    /\ classified_by = "fallback"
    /\ entry = "generate"
    /\ overlay = "off"
    /\ remembered # NoRecord
    /\ remembered.since = MaxSince
    /\ remembered.variant = variant
    /\ remembered.git_diff = git_diff
    /\ commit_message = remembered.commit_message

\* the rules of the classifier in the order of the specification
RuleOrder ==
    <<"docs", "code", "auth", "fix", "refactor", "test", "style", "build", "ci",
      "default">>

\* the predicate of a rule, on the file names and the lower-cased diff
RuleHolds(rule, files, lower) ==
    CASE rule = "docs"     -> IsDocs(files, lower)
      [] rule = "code"     -> AnyIn(CodeWords, lower)
      [] rule = "auth"     -> AnyIn(AuthWords, lower)
      [] rule = "fix"      -> AnyIn(FixWords, lower)
      [] rule = "refactor" -> AnyIn(RefactorWords, lower)
      [] rule = "test"     -> AnyIn(TestWords, lower)
      [] rule = "style"    -> AnyIn(StyleWords, lower)
      [] rule = "build"    -> AnyIn(BuildWords, lower)
      [] rule = "ci"       -> AnyIn(CiWords, lower)
      [] rule = "default"  -> TRUE

\* the (category, scope) of a rule
RuleOutcome(rule) ==
    CASE rule = "docs"     -> <<"docs", "documentation">>
      [] rule = "code"     -> <<"feat", "code">>
      [] rule = "auth"     -> <<"feat", "auth">>
      [] rule = "fix"      -> <<"fix", "validation">>
      [] rule = "refactor" -> <<"refactor", "code">>
      [] rule = "test"     -> <<"test", "testing">>
      [] rule = "style"    -> <<"style", "formatting">>
      [] rule = "build"    -> <<"build", "dependencies">>
      [] rule = "ci"       -> <<"ci", "pipeline">>
      [] rule = "default"  -> <<"chore", "maintenance">>

\* the first rule of RuleOrder whose predicate holds
FirstMatch(files, lower) ==
    RuleOrder[CHOOSE i \in 1..Len(RuleOrder) :
                 /\ RuleHolds(RuleOrder[i], files, lower)
                 /\ \A j \in 1..(i - 1) : ~RuleHolds(RuleOrder[j], files, lower)]

\* the category and the scope a rendered message names (NoneValue: no scope)
MessageCategory(message) == Split(Split(message, ":")[1], "(")[1]
MessageScope(message) ==
    LET head == Split(message, ":")[1]
    IN  IF Contains(head, "(")
        THEN Split(AfterFirst(head, "("), ")")[1]
        ELSE NoneValue

\* SimpleDiffAnalyzer returns the outcome of the first matching rule
SimpleFirstMatch ==
    (variant = "simple" /\ entry = "generate"
        /\ pc \in {"Classified", "Summarized", "Formatted", "Done"})
    => <<analysis["change_type"], analysis["scope"]>>
         = RuleOutcome(FirstMatch(file_names, Lower(git_diff)))

\* quick_commit.analyze_changes names the category of the first matching rule,
\* and its scope where it names one
QuickFirstMatch ==
    (variant = "quick" /\ pc \in {"Formatted", "Done"})
    => LET outcome == RuleOutcome(FirstMatch(ExtractFileNamesSplit(git_diff),
                                             Lower(git_diff)))
       IN  /\ MessageCategory(commit_message) = outcome[1]
           /\ MessageScope(commit_message) # NoneValue
                => MessageScope(commit_message) = outcome[2]

\* C10: the rule-based classifiers return the (category, scope) of the first
\* rule whose predicate holds, in the order docs, code structure, auth, fix,
\* refactor, test, style, build, ci, default; a later rule's outcome is never
\* returned when an earlier rule's predicate holds
C10_FirstMatchingRule ==
    SimpleFirstMatch /\ QuickFirstMatch

\* the classification is in hand and did not come from the advisory
ClassifiedByCode ==
    /\ entry = "generate"
    /\ pc \in {"Classified", "Summarized", "Formatted", "Done"}
    /\ classified_by \in {"rules", "fallback"}

\* the file set has a documentation file and a source file, and the text a
\* definition, import or return keyword
MixedDocsAndCode(files, text) ==
    /\ AnyFileHas(files, ".md")
    /\ AnyFileHas(files, ".py")
    /\ AnyIn({"def ", "class ", "import ", "return "}, Lower(text))

\* C11: a diff that touches a documentation file and a source file and has a
\* definition, import or return keyword is not classified docs: the result is
\* feat with scope code
C11_DocsExcludedForCode ==
    /\ (variant \in {"simple", "llm"} /\ ClassifiedByCode
            /\ MixedDocsAndCode(file_names, git_diff))
       => <<analysis["change_type"], analysis["scope"]>> = <<"feat", "code">>
    /\ (variant = "quick" /\ pc \in {"Formatted", "Done"}
            /\ MixedDocsAndCode(ExtractFileNamesSplit(git_diff), git_diff))
       => /\ MessageCategory(commit_message) = "feat"
          /\ MessageScope(commit_message) \in {NoneValue, "code"}

\* the text of the authentication scenario
HasLoginScenario(text) ==
    /\ Contains(text, "def login")
    /\ Contains(text, "session")
    /\ Contains(text, "log_failed_attempt")

\* C12: a diff whose text contains `def login`, `session` and
\* `log_failed_attempt` is classified feat with scope auth
C12_LoginScenario ==
    /\ (variant \in {"simple", "demo"} /\ ClassifiedByCode
            /\ HasLoginScenario(git_diff))
       => <<analysis["change_type"], analysis["scope"]>> = <<"feat", "auth">>
    /\ (variant = "quick" /\ pc \in {"Formatted", "Done"}
            /\ HasLoginScenario(git_diff))
       => <<MessageCategory(commit_message), MessageScope(commit_message)>>
            = <<"feat", "auth">>

\* the text has a regex, pattern or validation keyword and no keyword of the
\* code-structure rule
ValidationOnly(text) ==
    /\ AnyIn({"regex", "pattern", "validation"}, Lower(text))
    /\ ~AnyIn({"def ", "class ", "import ", "return ", "if ", "for ", "while "},
              Lower(text))

\* neither the documentation rule nor an authentication keyword applies
NoEarlierRule(files, text) ==
    /\ ~IsDocs(files, Lower(text))
    /\ ~AnyIn({"log", "auth", "login", "session", "token", "jwt"}, Lower(text))

WithoutAdvisory ==
    /\ entry = "generate"
    /\ \/ variant = "simple"
       \/ variant = "llm" /\ overlay = "off"

\* the header lines of the diff name exactly this one path
TouchesOnly(text, path) == ExtractFileNamesRegex(text) = <<path>>

\* C14: for a diff touching only README.md the classification is docs, scope
\* markdown, confidence high, and the message is exactly
\* "docs(markdown): update markdown documentation"
C14_ReadmeScenario ==
    (variant = "llm" /\ WithoutAdvisory /\ git_diff # Unset
        /\ TouchesOnly(git_diff, "README.md"))
    => /\ pc \in {"Classified", "Summarized", "Formatted", "Done"}
          => /\ analysis["change_type"] = "docs"
             /\ analysis["scope"] = "markdown"
             /\ analysis["confidence"] = "high"
       /\ pc = "Done"
          => commit_message = "docs(markdown): update markdown documentation"

\* C15: for a diff touching only src/main.py that adds a function definition
\* the classification is feat, scope code, confidence high, and the message
\* is exactly "feat(code): add new functionality"
C15_PythonScenario ==
    (WithoutAdvisory /\ git_diff # Unset /\ TouchesOnly(git_diff, "src/main.py")
        /\ Contains(git_diff, "def "))
    => /\ pc \in {"Classified", "Summarized", "Formatted", "Done"}
          => /\ analysis["change_type"] = "feat"
             /\ analysis["scope"] = "code"
             /\ analysis["confidence"] = "high"
       /\ pc = "Done" => commit_message = "feat(code): add new functionality"

\* the diff of the test suite went through the rule-based pipeline
C15_Witness ==
    /\ variant = "simple"
    /\ entry = "generate"
    /\ pc = "Done"
    /\ git_diff = DiffPythonTest
    /\ analysis["change_type"] = "feat"
    /\ commit_message = "feat(code): add new functionality"

\* no header line is recognised and no keyword rule applies
NothingRecognised(text) ==
    /\ ExtractFileNamesRegex(text) = <<>>
    /\ ExtractFileNamesSplit(text) = <<>>
    /\ \A i \in 1..(Len(RuleOrder) - 1) : ~RuleHolds(RuleOrder[i], <<>>, Lower(text))

\* C16: a non-empty diff with no recognisable header and no keyword match is
\* classified chore, scope maintenance, confidence low, with an empty file
\* list, and the message is exactly "chore: maintain codebase"
C16_MalformedIsChore ==
    (WithoutAdvisory /\ OnNonEmptyDiff /\ NothingRecognised(git_diff))
    => /\ pc \in {"Classified", "Summarized", "Formatted", "Done"}
          => /\ analysis["change_type"] = "chore"
             /\ analysis["scope"] = "maintenance"
             /\ analysis["confidence"] = "low"
             /\ analysis["files"] = <<>>
       /\ pc = "Done" => commit_message = "chore: maintain codebase"

\* a text that is no diff went through the rule-based pipeline
C16_Witness ==
    /\ variant = "simple"
    /\ entry = "generate"
    /\ pc = "Done"
    /\ git_diff = DiffMalformed
    /\ analysis["files"] = <<>>
    /\ commit_message = "chore: maintain codebase"

\* the rows of the lookup table: <<category, scope, description>>
TableRows ==
    {<<"feat", "auth", "add authentication features">>,
     <<"feat", "api", "add new API endpoints">>,
     <<"feat", "ui", "add new user interface">>,
     <<"fix", "validation", "fix validation issues">>,
     <<"fix", "bug", "fix critical bugs">>,
     <<"docs", "api", "update API documentation">>,
     <<"docs", "readme", "update README">>}

\* the default description of each known category
CategoryDefaults ==
    {<<"feat", "add new functionality">>,
     <<"fix", "fix issues and bugs">>,
     <<"docs", "update documentation">>,
     <<"refactor", "refactor code structure">>,
     <<"test", "add or update tests">>,
     <<"style", "improve code formatting">>,
     <<"build", "update build configuration">>,
     <<"ci", "update CI/CD pipeline">>,
     <<"chore", "maintain codebase">>}

\* the description the table prescribes for a pair
TableDescription(category, scope) ==
    IF \E row \in TableRows : row[1] = category /\ row[2] = scope
      THEN (CHOOSE row \in TableRows : row[1] = category /\ row[2] = scope)[3]
    ELSE IF \E d \in CategoryDefaults : d[1] = category
      THEN (CHOOSE d \in CategoryDefaults : d[1] = category)[2]
    ELSE "maintain codebase"

\* the rule-based formatter has produced a message
SimpleFormatted == variant = "simple" /\ pc \in {"Formatted", "Done"}

\* C17: the rule-based formatter maps each (category, scope) pair to the
\* message of its lookup table: the four pairs of the test suite give their
\* exact messages, a known category with a scope outside the table gets the
\* default description of the category, and an unrecognised category gets
\* "maintain codebase"
C17_LookupTable ==
    SimpleFormatted
    => LET category == analysis["change_type"]
           scope == analysis["scope"]
       IN  /\ commit_message
                = Str(category)
                    \o (IF scope \in {NoneValue, "", "maintenance"} THEN ""
                        ELSE "(" \o scope \o ")")
                    \o ": " \o TableDescription(category, scope)
           /\ (category = "feat" /\ scope = "auth")
                => commit_message = "feat(auth): add authentication features"
           /\ (category = "fix" /\ scope = "validation")
                => commit_message = "fix(validation): fix validation issues"
           /\ (category = "docs" /\ scope = "readme")
                => commit_message = "docs(readme): update README"
           /\ (category = "chore" /\ scope = "maintenance")
                => commit_message = "chore: maintain codebase"
           /\ category = "perf"
                => commit_message = "perf" \o ScopePart(scope) \o ": maintain codebase"

\* the formatter was called by itself with a pair of the table
C17_Witness ==
    /\ variant = "simple"
    /\ entry = "format"
    /\ pc = "Formatted"
    /\ analysis["change_type"] = "docs"
    /\ analysis["scope"] = "readme"
    /\ commit_message = "docs(readme): update README"

\* no entry of the list occurs twice
NoDuplicates(files) ==
    \A i, j \in 1..Len(files) : i # j => files[i] # files[j]

\* C18: the file list returned by the parser contains no path twice, also
\* when the same path appears in several header lines
C18_NoDuplicatePaths ==
    (variant \in {"llm", "simple"} /\ entry = "generate")
    => NoDuplicates(file_names)

\* the path P of a line `diff --git a/P b/P`, "" for any other line
SamePath(line) ==
    LET n == (Len(line) - 16) \div 2
    IN  IF /\ Len(line) >= 18
           /\ Len(line) = 16 + 2 * n
           /\ SubSeq(line, 1, 13) = "diff --git a/"
           /\ SubSeq(line, 14 + n, 16 + n) = " b/"
           /\ SubSeq(line, 14, 13 + n) = SubSeq(line, 17 + n, Len(line))
        THEN SubSeq(line, 14, 13 + n)
        ELSE ""

\* the paths of the same-path headers of a list of lines, in header order
RECURSIVE SamePaths(_)
SamePaths(lines) ==
    IF lines = <<>> THEN <<>>
    ELSE (IF SamePath(Head(lines)) = "" THEN <<>> ELSE <<SamePath(Head(lines))>>)
         \o SamePaths(Tail(lines))

\* every header line of the text is `diff --git a/P b/P`, with distinct P
PlainHeaders(text) ==
    LET lines == Split(text, "\n")
    IN  /\ \A k \in 1..Len(lines) :
              StartsWith(lines[k], "diff --git") => SamePath(lines[k]) # ""
        /\ SamePaths(lines) # <<>>
        /\ NoDuplicates(SamePaths(lines))

\* the parser has run in this invocation
Parsed ==
    /\ entry = "generate"
    /\ variant \in {"llm", "simple"}
    /\ pc \in {"FilesExtracted", "Classified", "Summarized", "Formatted", "Done"}

\* C19: for a diff whose header lines are `diff --git a/P b/P` with distinct
\* paths P the parser returns exactly the full relative paths P, one entry
\* per header, in header order
C19_FullPathsInOrder ==
    (Parsed /\ PlainHeaders(git_diff))
    => file_names = SamePaths(Split(git_diff, "\n"))

\* the no-file sentinel of a diff header
NoFile == "/dev/null"

\* the one path a matching header contributes: the new path, or the old path
\* when the new path is the sentinel
HeaderPath(line) ==
    LET i == HeaderMatch(line)
        old_path == SubSeq(line, Len(HeaderPrefix) + 1, i - 1)
        new_path == SubSeq(line, i + 3, Len(line))
    IN  IF new_path = NoFile THEN old_path ELSE new_path

RECURSIVE HeaderPaths(_)
HeaderPaths(lines) ==
    IF lines = <<>> THEN <<>>
    ELSE (IF HeaderMatch(Head(lines)) = 0 THEN <<>>
          ELSE <<HeaderPath(Head(lines))>>)
         \o HeaderPaths(Tail(lines))

\* every header line of the text matches `diff --git a/<old> b/<new>`
MatchingHeaders(text) ==
    LET lines == Split(text, "\n")
    IN  /\ \A k \in 1..Len(lines) :
              StartsWith(lines[k], "diff --git") => HeaderMatch(lines[k]) # 0
        /\ HeaderPaths(lines) # <<>>

\* one of the three parsers has run in this invocation
ParsedByAny ==
    /\ entry = "generate"
    /\ variant \in {"llm", "simple", "fast"}
    /\ pc \in {"FilesExtracted", "Classified", "Summarized", "Formatted", "Done"}

\* C20: each matching header line contributes exactly one path, the new path,
\* or the old path when the new path is the no-file sentinel; a rename
\* contributes only its new path.  The entry may be the path or its last
\* component.
C20_OnePathPerHeader ==
    (ParsedByAny /\ MatchingHeaders(git_diff))
    => LET expected == HeaderPaths(Split(git_diff, "\n"))
       IN  /\ Len(file_names) = Len(expected)
           /\ \A k \in 1..Len(expected) :
                 file_names[k] \in {expected[k], Basename(expected[k])}

\* the git command of this invocation failed
GitFailed == entry = "generate" /\ git_status \in {"exit_error", "no_git"}

\* the messages the generators return for "no changes"
NoChangesSentinels ==
    {"No changes detected.", "No changes detected or git diff is empty."}

\* C21: when the git command exits with an error, or the git executable
\* cannot be started, diff acquisition yields the empty string and the
\* pipeline returns the no-changes sentinel; no exception reaches the caller
C21_GitFailureIsNoChanges ==
    (variant \in {"llm", "simple"} /\ GitFailed)
    => /\ pc = "NoChanges"
       /\ raised = ""
       /\ git_diff = ""
       /\ commit_message \in NoChangesSentinels

\* the steps of the two traces of an invocation
StageSteps ==
    {<<"Start", "NoChanges">>, <<"Start", "DiffAcquired">>,
     <<"DiffAcquired", "FilesExtracted">>, <<"FilesExtracted", "Classified">>,
     <<"Classified", "Summarized">>, <<"Summarized", "Formatted">>,
     <<"Formatted", "Done">>}

\* a step of a running invocation of one of the two orchestrators
OrchestratorStep ==
    /\ entry = "generate"
    /\ variant \in {"llm", "fast"}
    /\ pc \notin Terminal \cup {"Idle"}
    /\ pc' # pc

\* the step is one of the two traces: an empty or whitespace-only diff goes
\* to NoChanges with no stage run, any other diff to the next stage
OnTrace ==
    /\ <<pc, pc'>> \in StageSteps
    /\ pc = "Start" => (pc' = "NoChanges" <=> Strip(git_diff') = "")
    /\ pc' = "NoChanges"
         => /\ file_names' = <<>>
            /\ analysis' = NoAnalysis
            /\ summary' = Unset
            /\ reply' = NoReply

\* C22: every invocation of the orchestrator follows one of two traces: for
\* an empty or whitespace-only diff, Start to NoChanges with no stage run;
\* otherwise Start, DiffAcquired, FilesExtracted, Classified, Summarized,
\* Formatted, Done, each stage once and in that order
C22_TwoTraces == [][OrchestratorStep => OnTrace]_vars

\* the LLM-backed formatter has returned a message that is not the advisory's
CandidateNotUsed ==
    /\ variant = "llm"
    /\ pc \in {"Formatted", "Done"}
    /\ reply.kind \in {"raise", "text"}
    /\ LlmBranch(reply) # "advisory"

\* C23: in the LLM-backed formatter, whenever the advisory candidate is not
\* used, the message is the same whether the advisory call raised or its
\* candidate failed the validation: category, scope part and the description
\* of the (category, scope) lookup table
C23_SameFallbackMessage ==
    CandidateNotUsed
    => LET category == analysis["change_type"]
           scope == analysis["scope"]
       IN  /\ commit_message
                = Render(category, scope, DescriptionLlmTable(category, scope))
           /\ (category = "feat" /\ scope = "auth")
                => commit_message = "feat(auth): add authentication features"

\* one of the three deterministic formatters has returned a message
DeterministicFormatted ==
    /\ variant \in {"simple", "production", "demo"}
    /\ pc \in {"Formatted", "Done"}

\* the message the formatter of the variant in use gives for a summary phrase
FormattedWith(phrase) ==
    LET category == analysis["change_type"]
        scope == analysis["scope"]
    IN  IF variant = "simple" THEN FormatSimple(category, phrase, scope)
        ELSE IF variant = "production" THEN FormatProduction(category, phrase, scope)
        ELSE FormatMock(category, phrase, scope)

\* C24: the output of the deterministic formatter depends only on
\* (category, scope): any two summary phrases give the same message
C24_SummaryIndependent ==
    DeterministicFormatted
    => \A phrase \in FormatSummaries : FormattedWith(phrase) = commit_message

\* the classification the rules of a variant give a diff text
RuleClassification(v, text) ==
    IF v = "simple" THEN AnalyzeSimple(text)
    ELSE IF v = "llm" THEN FallbackAnalysisLlm(ExtractFileNamesRegex(text))
    ELSE MockAnalyze(text)

\* the two texts differ in letter case only
SameUpToCase(text, other) == Len(text) = Len(other) /\ Lower(text) = Lower(other)

\* the rules of one of the three classifiers have classified the diff
ClassifiedByRules ==
    /\ entry = "generate"
    /\ variant \in {"simple", "llm", "demo"}
    /\ classified_by \in {"rules", "fallback"}
    /\ pc \in {"Classified", "Summarized", "Formatted", "Done"}

\* C25: classification is case-insensitive: a diff and any variant of it that
\* differs only in letter case, in the body or in the file paths and
\* extensions, get the same category and scope
C25_CaseInsensitive ==
    ClassifiedByRules
    => \A other \in Diffs :
         SameUpToCase(git_diff, other)
         => LET twin == RuleClassification(variant, other)
            IN  /\ twin["change_type"] = analysis["change_type"]
                /\ twin["scope"] = analysis["scope"]

\* the rule-based classifier has classified the diff
SimpleClassified ==
    /\ entry = "generate"
    /\ variant = "simple"
    /\ pc \in {"Classified", "Summarized", "Formatted", "Done"}

\* the outcomes of the structural rules, of the keyword rules, of the default
StructuralOutcomes == {<<"docs", "documentation">>, <<"feat", "code">>}
KeywordOutcomes ==
    {<<"feat", "auth">>, <<"fix", "validation">>, <<"refactor", "code">>,
     <<"test", "testing">>, <<"style", "formatting">>,
     <<"build", "dependencies">>, <<"ci", "pipeline">>}
DefaultOutcome == <<"chore", "maintenance">>

\* confidence is low if and only if the default rule fired
LowIffDefault ==
    SimpleClassified
    => (analysis["confidence"] = "low"
        <=> <<analysis["change_type"], analysis["scope"]>> = DefaultOutcome)

\* C26: the confidence is high exactly for the structural rules
\* (documentation, code structure), medium for every keyword rule (auth, fix,
\* refactor, test, style, build, ci) and low for the default rule
C26_ConfidenceByRuleKind ==
    /\ LowIffDefault
    /\ SimpleClassified
        => LET outcome == <<analysis["change_type"], analysis["scope"]>>
           IN  /\ outcome \in StructuralOutcomes => analysis["confidence"] = "high"
               /\ outcome \in KeywordOutcomes => analysis["confidence"] = "medium"

\* the rule-based composer has returned a summary
SimpleSummarized ==
    /\ entry = "generate"
    /\ variant = "simple"
    /\ pc \in {"Summarized", "Formatted", "Done"}

\* the clause for a file list: none, " in X", " in X and Y",
\* " in X and N other files" with N = number of files - 1
Clause(files) ==
    LET n == Len(files)
    IN  IF n = 0 THEN ""
        ELSE IF n = 1 THEN " in " \o files[1]
        ELSE IF n = 2 THEN " in " \o files[1] \o " and " \o files[2]
        ELSE " in " \o files[1] \o " and " \o ToString(n - 1) \o " other files"

EndsWith(s, suffix) ==
    /\ Len(s) >= Len(suffix)
    /\ SubSeq(s, Len(s) - Len(suffix) + 1, Len(s)) = suffix

\* the categories whose phrase carries the clause
ContextCategories == {"feat", "fix", "refactor", "test", "docs"}

\* C27 as stated: the summary of every category ends with the clause of the
\* file list, is not empty, and no exception is raised
C27_FileContextAlways ==
    SimpleSummarized
    => /\ raised = ""
       /\ Len(summary) > Len(Clause(analysis["files"]))
       /\ EndsWith(summary, Clause(analysis["files"]))

\* C27, amended: the summary of the categories feat, fix, refactor, test and
\* docs ends with the clause of the file list; the summary of every other
\* category has no clause; every category gets a phrase and nothing is raised
C27_FileContextByCategory ==
    SimpleSummarized
    => /\ raised = ""
       /\ analysis["change_type"] \in ContextCategories
            => /\ Len(summary) > Len(Clause(analysis["files"]))
               /\ EndsWith(summary, Clause(analysis["files"]))
               /\ analysis["files"] = <<>> => ~Contains(summary, " in ")
       /\ analysis["change_type"] \notin ContextCategories
            => Len(summary) > 0 /\ ~Contains(summary, " in ")

\* a diff of three files went through the rule-based composer
C27_Witness ==
    /\ SimpleSummarized
    /\ pc = "Done"
    /\ git_diff = DiffThreeFiles
    /\ Len(analysis["files"]) = 3
    /\ summary = "Add new functionality in a.py and 2 other files"

(***************************************************************************)
(* Concurrent invocations on one generator object                          *)
(***************************************************************************)

\* In this specification pc, git_diff, file_names, analysis, summary and
\* commit_message hold one value per caller: they are the local variables of
\* generate_commit_message / generate, one frame per call.  The generator
\* object and its three agents are shared by the callers; no method writes a
\* field of them after __init__.  Every advisory call fails.

Callers == {1, 2}

\* the diffs the callers pass
ConcDiffs == {DiffEmpty, DiffPython, DiffReadme, DiffMixed, DiffRename, "login token"}

\* what the callers never change
ConcFixed == <<variant, entry, overlay, git_status, reply, raised, classified_by,
               remembered>>

\* _extract_file_names of the generator in use
StageFiles(v, text) ==
    IF v = "llm" THEN ExtractFileNamesRegex(text) ELSE ExtractFileNamesSplit(text)

\* analyze_diff once the files are known, the advisory failing
StageAnalysis(v, files, text) ==
    IF v = "llm" THEN FallbackAnalysisLlm(files) ELSE ClassifySimple(files, text)

\* create_summary, the advisory failing
StageSummary(v, a) ==
    IF v = "llm" THEN FallbackSummaryLlm(a)
    ELSE SimpleSummary(a["change_type"], a["scope"], Get(a, "files", <<>>))

\* format_commit_message, the advisory failing
StageMessage(v, a, phrase) ==
    IF v = "llm"
    THEN FormatLlm(a["change_type"], a["scope"], phrase, [kind |-> "raise"])
    ELSE FormatSimple(a["change_type"], phrase, a["scope"])

\* the message of an invocation that runs alone, from its first line to its
\* return
AloneMessage(v, text) ==
    IF Strip(text) = "" THEN EmptyMessage(v)
    ELSE LET a == StageAnalysis(v, StageFiles(v, text), text)
         IN  StageMessage(v, a, StageSummary(v, a))

ConcInit ==
    /\ pc = [c \in Callers |-> "Idle"]
    /\ variant \in {"simple", "llm"}
    /\ entry = "generate"
    /\ overlay = "off"
    /\ git_status = "arg"
    /\ git_diff = [c \in Callers |-> Unset]
    /\ file_names = [c \in Callers |-> <<>>]
    /\ analysis = [c \in Callers |-> NoAnalysis]
    /\ summary = [c \in Callers |-> Unset]
    /\ reply = NoReply
    /\ commit_message = [c \in Callers |-> Unset]
    /\ raised = ""
    /\ classified_by = Unset
    /\ remembered = NoRecord

\* caller c calls the entry point with a diff: a new frame
ConcInvoke(c) ==
    /\ pc[c] \in {"Idle", "Done", "NoChanges"}
    /\ \E d \in ConcDiffs : git_diff' = [git_diff EXCEPT ![c] = d]
    /\ pc' = [pc EXCEPT ![c] = "Start"]
    /\ file_names' = [file_names EXCEPT ![c] = <<>>]
    /\ analysis' = [analysis EXCEPT ![c] = NoAnalysis]
    /\ summary' = [summary EXCEPT ![c] = Unset]
    /\ commit_message' = [commit_message EXCEPT ![c] = Unset]
    /\ UNCHANGED ConcFixed

\* if not git_diff.strip(): return the sentinel
ConcAcquireDiff(c) ==
    /\ pc[c] = "Start"
    /\ IF Strip(git_diff[c]) = ""
       THEN /\ pc' = [pc EXCEPT ![c] = "NoChanges"]
            /\ commit_message' = [commit_message EXCEPT ![c] = EmptyMessage(variant)]
       ELSE /\ pc' = [pc EXCEPT ![c] = "DiffAcquired"]
            /\ UNCHANGED commit_message
    /\ UNCHANGED <<git_diff, file_names, analysis, summary>>
    /\ UNCHANGED ConcFixed

ConcExtractFiles(c) ==
    /\ pc[c] = "DiffAcquired"
    /\ file_names' = [file_names EXCEPT ![c] = StageFiles(variant, git_diff[c])]
    /\ pc' = [pc EXCEPT ![c] = "FilesExtracted"]
    /\ UNCHANGED <<git_diff, analysis, summary, commit_message>>
    /\ UNCHANGED ConcFixed

\* a classifier that keeps its result on the shared generator object
ConcClassifyShared(c) ==
    /\ pc[c] = "FilesExtracted"
    /\ analysis' = [k \in Callers |->
                        StageAnalysis(variant, file_names[c], git_diff[c])]
    /\ pc' = [pc EXCEPT ![c] = "Classified"]
    /\ UNCHANGED <<git_diff, file_names, summary, commit_message>>
    /\ UNCHANGED ConcFixed

\* analysis = self.diff_analyzer.analyze_diff(git_diff)
ConcClassify(c) ==
    /\ pc[c] = "FilesExtracted"
    /\ analysis' = [analysis EXCEPT
                        ![c] = StageAnalysis(variant, file_names[c], git_diff[c])]
    /\ pc' = [pc EXCEPT ![c] = "Classified"]
    /\ UNCHANGED <<git_diff, file_names, summary, commit_message>>
    /\ UNCHANGED ConcFixed

\* summary = self.summary_agent.create_summary(...)
ConcSummarize(c) ==
    /\ pc[c] = "Classified"
    /\ summary' = [summary EXCEPT ![c] = StageSummary(variant, analysis[c])]
    /\ pc' = [pc EXCEPT ![c] = "Summarized"]
    /\ UNCHANGED <<git_diff, file_names, analysis, commit_message>>
    /\ UNCHANGED ConcFixed

\* commit_message = self.formatter_agent.format_commit_message(...)
ConcFormat(c) ==
    /\ pc[c] = "Summarized"
    /\ commit_message' = [commit_message EXCEPT
                              ![c] = StageMessage(variant, analysis[c], summary[c])]
    /\ pc' = [pc EXCEPT ![c] = "Formatted"]
    /\ UNCHANGED <<git_diff, file_names, analysis, summary>>
    /\ UNCHANGED ConcFixed

\* return commit_message
ConcReturn(c) ==
    /\ pc[c] = "Formatted"
    /\ pc' = [pc EXCEPT ![c] = "Done"]
    /\ UNCHANGED <<git_diff, file_names, analysis, summary, commit_message>>
    /\ UNCHANGED ConcFixed

ConcNext ==
    \E c \in Callers :
        \/ ConcInvoke(c)
        \/ ConcAcquireDiff(c)
        \/ ConcExtractFiles(c)
        \/ ConcClassify(c)
        \/ ConcSummarize(c)
        \/ ConcFormat(c)
        \/ ConcReturn(c)

ConcSpec == ConcInit /\ [][ConcNext]_vars

\* C28: pipeline invocations share no mutable state: when invocations on
\* different diffs run concurrently, their steps interleaved in any order,
\* each returns the message it returns when run alone
C28_ConcurrentAsAlone ==
    \A c \in Callers :
        pc[c] \in {"Formatted", "Done", "NoChanges"}
        => commit_message[c] = AloneMessage(variant, git_diff[c])

\* one caller has returned while the other, on a different diff with a
\* different classification, is between two stages
C28_Witness ==
    /\ pc[1] = "Done"
    /\ pc[2] = "Summarized"
    /\ git_diff[1] = DiffPython
    /\ git_diff[2] = DiffReadme
    /\ analysis[1]["change_type"] # analysis[2]["change_type"]
    /\ commit_message[1] = "feat(code): add new functionality"

\* the rule-based formatter has formatted what the rule-based classifier found
SimplePipelineFormatted ==
    /\ entry = "generate"
    /\ variant = "simple"
    /\ classified_by = "rules"
    /\ pc \in {"Formatted", "Done"}

\* C29: for every (category, scope) pair the rule-based classifier produces,
\* the message the formatter builds passes the validation applied to advisory
\* candidates: it contains ": " and is at most 50 characters long
C29_OwnMessagePassesGate ==
    SimplePipelineFormatted
    => /\ Contains(commit_message, ": ")
       /\ Len(commit_message) <= MaxCandidateLength
       /\ ValidCandidate(commit_message)

\* the longest message of the rule-based pipeline was returned
C29_Witness ==
    /\ SimplePipelineFormatted
    /\ pc = "Done"
    /\ analysis["change_type"] = "build"
    /\ analysis["scope"] = "dependencies"
    /\ commit_message = "build(dependencies): update build configuration"
    /\ Len(commit_message) = 47

\* one of the four deterministic formatters has built the message
TableFormatted ==
    /\ pc \in {"Formatted", "Done"}
    /\ \/ variant \in {"simple", "fast", "production"}
       \/ /\ variant = "llm"
          /\ reply.kind = "text"
          /\ LlmBranch(reply) = "table"

\* C30: the deterministic formatters of the pipeline variants are
\* equivalent: for every (category, scope) pair the simple, fast and
\* production formatters and the validation-failure fallback of the
\* LLM-backed formatter return the same message
C30_FormattersAgree ==
    TableFormatted
    => LET category == analysis["change_type"]
           scope == analysis["scope"]
       IN  /\ commit_message = FormatSimple(category, summary, scope)
           /\ commit_message = FormatFast(category, scope, file_names)
           /\ commit_message = FormatProduction(category, summary, scope)
           /\ commit_message
                = Render(category, scope, DescriptionLlmTable(category, scope))

====
